---- MODULE Spec2Model ----
\* Verification model of package messages (go/tricorder/messages/api.go):
\* Duration and its conversions, the dense (go rpc) and sparse (JSON) forms of
\* RangeWithCount, Distribution, Value and Metric, and ErrMetricNotFound.
EXTENDS Integers, Sequences, FiniteSets, TLC

VARIABLES
    mode,        \* which part of the package the behaviour exercises
    input,       \* Duration part: the native span or timestamp given
    duration,    \* Duration part: the Duration constructed, <<>> before
    goDuration,  \* result of AsGoDuration, <<>> before the call
    goTime,      \* result of AsGoTime, <<>> before the call
    text,        \* result of String, <<>> before the call
    rpc,         \* Metric part: the dense RpcMetric, <<>> when none
    json,        \* Metric part: the sparse Metric, <<>> when none
    back,        \* Metric part: outcome of sparse -> dense, <<>> before
    list,        \* Lookup part: the RpcMetricList snapshot
    response     \* Lookup part: outcome of the last request, <<>> before

vars == <<mode, input, duration, goDuration, goTime, text, rpc, json, back,
          list, response>>

\* ---------------------------------------------------------------- bounds

\* Largest whole-second magnitude of the spans and timestamps drawn.
MaxSeconds == 1
\* Largest number of buckets of a distribution drawn.
MaxBuckets == 3
\* Largest number of metrics in a snapshot.
MaxList == 2

\* Largest native span of the model, a 32-bit stand-in for int64: overflow of
\* the seconds field is outside the package's contract.
MaxNative == (1073741823 * 2) + 1

\* ------------------------------------------------------------- optionals

\* A Go pointer field: nil is the empty tuple, &v the one-element tuple.
None == <<>>
Some(v) == <<v>>
Deref(p) == p[1]

\* ------------------------------------------------------- Go integer maths

Abs(n) == IF n < 0 THEN -n ELSE n

\* Go's integer division truncates toward zero.
GoDiv(a, b) == IF a < 0 THEN -((-a) \div b) ELSE a \div b

\* Go's remainder has the sign of the dividend.
GoMod(a, b) == a - (GoDiv(a, b) * b)

\* Flooring variants, as a division that rounds toward minus infinity gives.
FloorDiv(a, b) == a \div b
FloorMod(a, b) == a % b

\* ---------------------------------------------------------------- Duration

\* time.Second in units of time.Nanosecond.
NanosPerSecond == 1000000000

\* type Duration struct { Seconds int64; Nanoseconds int32 }
Duration(seconds, nanoseconds) ==
    [Seconds |-> seconds, Nanoseconds |-> nanoseconds]

\* A time.Time as Go exposes it: Unix() and Nanosecond(), 0 <= nsec < 1e9.
GoTime(sec, nsec) == [sec |-> sec, nsec |-> nsec]

\* time.Unix(sec, nsec): nsec outside [0, 1e9) is carried into sec.
Unix(sec, nsec) ==
    GoTime(sec + FloorDiv(nsec, NanosPerSecond), FloorMod(nsec, NanosPerSecond))

\* newDuration: Seconds by truncating division, Nanoseconds the remainder.
newDuration(d) ==
    Duration(GoDiv(d, NanosPerSecond), GoMod(d, NanosPerSecond))

\* newDuration with flooring division: -1.5s becomes (-2, +500000000).
newDurationFloored(d) ==
    Duration(FloorDiv(d, NanosPerSecond), FloorMod(d, NanosPerSecond))

NewDurationFloored(d) == newDurationFloored(d)

NewDuration(d) == newDuration(d)

\* sinceEpoch: time since the unix epoch, both fields negative before it.
sinceEpoch(t) ==
    IF t.sec < 0 /\ t.nsec > 0
    THEN Duration(t.sec + 1, t.nsec - NanosPerSecond)
    ELSE Duration(t.sec, t.nsec)

\* sinceEpoch that copies Unix() and Nanosecond() as they are.
sinceEpochRaw(t) == Duration(t.sec, t.nsec)

SinceEpochRaw(t) == sinceEpochRaw(t)

SinceEpoch(t) == sinceEpoch(t)

asGoDuration(d) == (d.Seconds * NanosPerSecond) + d.Nanoseconds

\* asGoDuration that drops the sub-second part.
AsGoDurationWhole(d) == d.Seconds * NanosPerSecond

AsGoDuration(d) == asGoDuration(d)

asGoTime(d) == Unix(d.Seconds, d.Nanoseconds)

\* asGoTime that drops the sub-second part.
AsGoTimeWhole(d) == Unix(d.Seconds, 0)

AsGoTime(d) == asGoTime(d)

\* ------------------------------------------------------------------- text

\* A Go string is a tuple of one-character strings.
Digits == <<"0", "1", "2", "3", "4", "5", "6", "7", "8", "9">>

IsDigit(c) == \E i \in 1..10 : Digits[i] = c

DigitVal(c) == (CHOOSE i \in 1..10 : Digits[i] = c) - 1

\* fmt %0wd of n >= 0 when n has at most w digits.
RECURSIVE Pad(_, _)
Pad(n, w) == IF w = 0 THEN <<>> ELSE Append(Pad(n \div 10, w - 1), Digits[(n % 10) + 1])

\* fmt %d of n >= 0.
RECURSIVE Dec(_)
Dec(n) == IF n < 10 THEN <<Digits[n + 1]>> ELSE Append(Dec(n \div 10), Digits[(n % 10) + 1])

\* fmt %d of any n.
SignedDec(n) == IF n < 0 THEN <<"-">> \o Dec(-n) ELSE Dec(n)

\* fmt %09d of any n: the sign takes one of the nine columns.
SignedPad9(n) ==
    IF n >= 0 THEN Pad(n, 9)
    ELSE IF -n >= 100000000 THEN <<"-">> \o Dec(-n)
    ELSE <<"-">> \o Pad(-n, 8)

IsNegative(d) == d.Seconds < 0 \/ d.Nanoseconds < 0

\* Decimal seconds by formatting each signed field on its own.
decimalSecondsPerField(d) ==
    SignedDec(d.Seconds) \o <<".">> \o SignedPad9(d.Nanoseconds)

\* The decimal-seconds text 1234567890.987654321, the sign on the whole.
decimalSeconds(d) ==
    (IF IsNegative(d) THEN <<"-">> ELSE <<>>)
        \o Dec(Abs(d.Seconds)) \o <<".">> \o Pad(Abs(d.Nanoseconds), 9)

_string(d) == decimalSeconds(d) \o <<"s">>

\* String by formatting each signed field on its own.
StringPerField(d) ==
    SignedDec(d.Seconds) \o <<".">> \o SignedPad9(d.Nanoseconds) \o <<"s">>

String(d) == _string(d)

\* strconv-style reading of an unsigned decimal.
RECURSIVE ParseNat(_)
ParseNat(s) ==
    IF Len(s) = 0 THEN 0
    ELSE (ParseNat(SubSeq(s, 1, Len(s) - 1)) * 10) + DigitVal(s[Len(s)])

AllDigits(s) == Len(s) > 0 /\ \A i \in 1..Len(s) : IsDigit(s[i])

\* Position of the first "." of s, 0 when there is none.
DotAt(s) ==
    IF \E i \in 1..Len(s) : s[i] = "."
    THEN CHOOSE i \in 1..Len(s) : s[i] = "." /\ \A j \in 1..(i - 1) : s[j] # "."
    ELSE 0

Unsigned(s) == IF Len(s) > 0 /\ s[1] = "-" THEN SubSeq(s, 2, Len(s)) ELSE s

WholePart(s) == SubSeq(Unsigned(s), 1, DotAt(Unsigned(s)) - 1)

FracPart(s) == SubSeq(Unsigned(s), DotAt(Unsigned(s)) + 1, Len(Unsigned(s)))

\* Whether s is [-]S.NNNNNNNNN.
IsDecimalSeconds(s) ==
    /\ DotAt(Unsigned(s)) > 0
    /\ AllDigits(WholePart(s))
    /\ AllDigits(FracPart(s))
    /\ Len(FracPart(s)) = 9

\* The Duration a decimal-seconds text denotes.
parseDecimalSeconds(s) ==
    IF Len(s) > 0 /\ s[1] = "-"
    THEN Duration(-ParseNat(WholePart(s)), -ParseNat(FracPart(s)))
    ELSE Duration(ParseNat(WholePart(s)), ParseNat(FracPart(s)))

\* ------------------------------------------------------ inputs: Duration

\* Sub-second parts drawn, in nanoseconds.
NanoSamples == {0, 1, 500000000, 999999999}

\* Whether s seconds and n nanoseconds fit a native span of the model.
Fits(s, n) ==
    \/ s < MaxNative \div NanosPerSecond
    \/ (s = MaxNative \div NanosPerSecond /\ n <= MaxNative % NanosPerSecond)

Magnitudes ==
    { (p[1] * NanosPerSecond) + p[2] :
        p \in { q \in (0..MaxSeconds) \X NanoSamples : Fits(q[1], q[2]) } }

\* Native time.Duration values: positive, zero and negative.
Spans == Magnitudes \cup { -m : m \in Magnitudes }

\* time.Time values on both sides of the epoch.
Times == { GoTime(s, n) : s \in (-(MaxSeconds + 1))..MaxSeconds, n \in NanoSamples }

FitsDuration(d) == Fits(Abs(d.Seconds), Abs(d.Nanoseconds))

\* ------------------------------------------------- dense and sparse types

\* type RpcRangeWithCount struct { Lower, Upper float64; Count uint64 }
RpcRangeWithCount(lower, upper, count) ==
    [Lower |-> lower, Upper |-> upper, Count |-> count]

\* RangeWithCount whose bounds are plain float64 with omitempty: a nil bound
\* cannot be told from 0.
RangeWithCountPlain(lower, upper, count) ==
    [Lower |-> IF lower = None \/ lower = Some(0) THEN Some(0) ELSE lower,
     Upper |-> IF upper = None \/ upper = Some(0) THEN Some(0) ELSE upper,
     Count |-> count]

\* type RangeWithCount struct { Lower, Upper *float64; Count uint64 }
RangeWithCount(lower, upper, count) ==
    [Lower |-> lower, Upper |-> upper, Count |-> count]

\* type RpcDistribution struct: the aggregate statistics and []*RpcRangeWithCount.
RpcDistribution(min, max, average, median, sum, count, ranges) ==
    [Min |-> min, Max |-> max, Average |-> average, Median |-> median,
     Sum |-> sum, Count |-> count, Ranges |-> ranges]

\* type Distribution struct: the aggregate statistics and []*RangeWithCount.
Distribution(min, max, average, median, sum, count, ranges) ==
    [Min |-> min, Max |-> max, Average |-> average, Median |-> median,
     Sum |-> sum, Count |-> count, Ranges |-> ranges]

\* types.Type, the kind tag of a value.
Kinds == {"bool", "int", "uint", "float", "string", "time", "duration", "dist"}

\* type RpcValue struct: every field is allocated, the unused ones hold zero.
RpcValue(kind, b, i, u, f, s, dur, dist) ==
    [Kind |-> kind, BoolValue |-> b, IntValue |-> i, UintValue |-> u,
     FloatValue |-> f, StringValue |-> s, DurationValue |-> dur,
     DistributionValue |-> dist]

\* Value whose scalar fields are plain values with omitempty: a zero value is
\* dropped like an absent one.
ValueOmitEmpty(kind, b, i, u, f, s, dist) ==
    [Kind |-> kind,
     BoolValue |-> IF b = Some(FALSE) THEN None ELSE b,
     IntValue |-> IF i = Some(0) THEN None ELSE i,
     UintValue |-> IF u = Some(0) THEN None ELSE u,
     FloatValue |-> IF f = Some(0) THEN None ELSE f,
     StringValue |-> IF s = Some(<<>>) THEN None ELSE s,
     DistributionValue |-> dist]

\* type Value struct: every payload field is a pointer, nil when absent.
Value(kind, b, i, u, f, s, dist) ==
    [Kind |-> kind, BoolValue |-> b, IntValue |-> i, UintValue |-> u,
     FloatValue |-> f, StringValue |-> s, DistributionValue |-> dist]

\* type RpcMetric struct { Path, Description string; Unit units.Unit; Value *RpcValue }
RpcMetric(path, description, unit, value) ==
    [Path |-> path, Description |-> description, Unit |-> unit, Value |-> value]

\* type Metric struct { Path, Description string; Unit units.Unit; Value *Value }
Metric(path, description, unit, value) ==
    [Path |-> path, Description |-> description, Unit |-> unit, Value |-> value]

\* ------------------------------------------------------- dense -> sparse

\* Bucket i of n: no lower bound on the first, no upper bound on the last.
rangeToWireForm(r, i, n) ==
    RangeWithCount(IF i = 1 THEN None ELSE Some(r.Lower),
                   IF i = n THEN None ELSE Some(r.Upper),
                   r.Count)

distributionToWireForm(d) ==
    Distribution(d.Min, d.Max, d.Average, d.Median, d.Sum, d.Count,
                 [i \in 1..Len(d.Ranges) |->
                     rangeToWireForm(d.Ranges[i], i, Len(d.Ranges))])

\* Only the payload the kind selects is present; time and duration go to the
\* string slot as decimal seconds.
valueToWireForm(v) ==
    CASE v.Kind = "bool" ->
            Value(v.Kind, Some(v.BoolValue), None, None, None, None, None)
      [] v.Kind = "int" ->
            Value(v.Kind, None, Some(v.IntValue), None, None, None, None)
      [] v.Kind = "uint" ->
            Value(v.Kind, None, None, Some(v.UintValue), None, None, None)
      [] v.Kind = "float" ->
            Value(v.Kind, None, None, None, Some(v.FloatValue), None, None)
      [] v.Kind = "string" ->
            Value(v.Kind, None, None, None, None, Some(v.StringValue), None)
      [] v.Kind \in {"time", "duration"} ->
            Value(v.Kind, None, None, None, None,
                  Some(decimalSeconds(v.DurationValue)), None)
      [] v.Kind = "dist" ->
            Value(v.Kind, None, None, None, None, None,
                  Some(distributionToWireForm(Deref(v.DistributionValue))))

metricToWireForm(m) ==
    Metric(m.Path, m.Description, m.Unit, Some(valueToWireForm(Deref(m.Value))))

\* ------------------------------------------------------- sparse -> dense

\* The failure results of the conversions and of a lookup by path.
ErrMalformedDistribution == "malformed-distribution"
ErrKindMismatch == "kind-mismatch"

Ok(v) == [err |-> "", val |-> Some(v)]
Fail(e) == [err |-> e, val |-> None]

\* A bound is missing where the position does not make it meaningless.
MissingInteriorBound(ranges) ==
    \E i \in 1..Len(ranges) :
        \/ (i > 1 /\ ranges[i].Lower = None)
        \/ (i < Len(ranges) /\ ranges[i].Upper = None)

BoundOrZero(p) == IF p = None THEN 0 ELSE Deref(p)

\* rangesFromWireForm that fills every missing bound with 0.
rangesFromWireFormDefaulting(ranges) ==
    Ok([i \in 1..Len(ranges) |->
           RpcRangeWithCount(BoundOrZero(ranges[i].Lower),
                             BoundOrZero(ranges[i].Upper),
                             ranges[i].Count)])

rangesFromWireForm(ranges) ==
    IF MissingInteriorBound(ranges)
    THEN Fail(ErrMalformedDistribution)
    ELSE Ok([i \in 1..Len(ranges) |->
                RpcRangeWithCount(BoundOrZero(ranges[i].Lower),
                                  BoundOrZero(ranges[i].Upper),
                                  ranges[i].Count)])

distributionFromWireForm(d) ==
    LET rs == rangesFromWireForm(d.Ranges)
    IN  IF rs.err # "" THEN Fail(rs.err)
        ELSE Ok(RpcDistribution(d.Min, d.Max, d.Average, d.Median, d.Sum,
                                d.Count, Deref(rs.val)))

ZeroDuration == Duration(0, 0)

valueFromWireForm(v) ==
    CASE v.Kind = "bool" ->
            IF v.BoolValue = None THEN Fail(ErrKindMismatch)
            ELSE Ok(RpcValue(v.Kind, Deref(v.BoolValue), 0, 0, 0, <<>>,
                             ZeroDuration, None))
      [] v.Kind = "int" ->
            IF v.IntValue = None THEN Fail(ErrKindMismatch)
            ELSE Ok(RpcValue(v.Kind, FALSE, Deref(v.IntValue), 0, 0, <<>>,
                             ZeroDuration, None))
      [] v.Kind = "uint" ->
            IF v.UintValue = None THEN Fail(ErrKindMismatch)
            ELSE Ok(RpcValue(v.Kind, FALSE, 0, Deref(v.UintValue), 0, <<>>,
                             ZeroDuration, None))
      [] v.Kind = "float" ->
            IF v.FloatValue = None THEN Fail(ErrKindMismatch)
            ELSE Ok(RpcValue(v.Kind, FALSE, 0, 0, Deref(v.FloatValue), <<>>,
                             ZeroDuration, None))
      [] v.Kind = "string" ->
            IF v.StringValue = None THEN Fail(ErrKindMismatch)
            ELSE Ok(RpcValue(v.Kind, FALSE, 0, 0, 0, Deref(v.StringValue),
                             ZeroDuration, None))
      [] v.Kind \in {"time", "duration"} ->
            IF v.StringValue = None THEN Fail(ErrKindMismatch)
            ELSE IF ~IsDecimalSeconds(Deref(v.StringValue)) THEN Fail(ErrKindMismatch)
            ELSE Ok(RpcValue(v.Kind, FALSE, 0, 0, 0, <<>>,
                             parseDecimalSeconds(Deref(v.StringValue)), None))
      [] v.Kind = "dist" ->
            IF v.DistributionValue = None THEN Fail(ErrKindMismatch)
            ELSE LET d == distributionFromWireForm(Deref(v.DistributionValue))
                 IN  IF d.err # "" THEN Fail(d.err)
                     ELSE Ok(RpcValue(v.Kind, FALSE, 0, 0, 0, <<>>,
                                      ZeroDuration, d.val))

metricFromWireForm(m) ==
    LET v == valueFromWireForm(Deref(m.Value))
    IN  IF v.err # "" THEN Fail(v.err)
        ELSE Ok(RpcMetric(m.Path, m.Description, m.Unit, v.val))

\* --------------------------------------------------- Duration: operations

SpanInput(d) == [kind |-> "span", span |-> d, time |-> GoTime(0, 0)]
TimeInput(t) == [kind |-> "time", span |-> 0, time |-> t]

InitDuration ==
    /\ mode = "duration"
    /\ input \in { SpanInput(d) : d \in Spans } \cup { TimeInput(t) : t \in Times }
    /\ duration = None /\ goDuration = None /\ goTime = None /\ text = None
    /\ rpc = None /\ json = None /\ back = None
    /\ list = <<>> /\ response = None

CallNewDuration ==
    /\ mode = "duration" /\ input.kind = "span" /\ duration = None
    /\ duration' = Some(NewDuration(input.span))
    /\ UNCHANGED <<mode, input, goDuration, goTime, text, rpc, json, back, list, response>>

CallSinceEpoch ==
    /\ mode = "duration" /\ input.kind = "time" /\ duration = None
    /\ duration' = Some(SinceEpoch(input.time))
    /\ UNCHANGED <<mode, input, goDuration, goTime, text, rpc, json, back, list, response>>

CallAsGoDuration ==
    /\ mode = "duration" /\ duration # None /\ goDuration = None
    /\ FitsDuration(Deref(duration))
    /\ goDuration' = Some(AsGoDuration(Deref(duration)))
    /\ UNCHANGED <<mode, input, duration, goTime, text, rpc, json, back, list, response>>

CallAsGoTime ==
    /\ mode = "duration" /\ duration # None /\ goTime = None
    /\ goTime' = Some(AsGoTime(Deref(duration)))
    /\ UNCHANGED <<mode, input, duration, goDuration, text, rpc, json, back, list, response>>

CallString ==
    /\ mode = "duration" /\ duration # None /\ text = None
    /\ text' = Some(String(Deref(duration)))
    /\ UNCHANGED <<mode, input, duration, goDuration, goTime, rpc, json, back, list, response>>

\* -------------------------------------------------------- inputs: Metric

\* Bucket bounds drawn; 0 is a bound like any other.
BoundSamples == {-2, 0, 5, 7}

\* What a dense first Lower or last Upper may hold: the field is populated
\* and the reader is to ignore it.
IgnoredSamples == {0, 9}

CountSamples == {0, 2}

\* The strictly ascending tuples of k bounds.
AscendingBounds(k) ==
    { e \in [1..k -> BoundSamples] : \A i \in 1..(k - 1) : e[i] < e[i + 1] }

RECURSIVE SumCounts(_)
SumCounts(ranges) ==
    IF Len(ranges) = 0 THEN 0
    ELSE ranges[1].Count + SumCounts(Tail(ranges))

\* The bucket lists of n buckets: bucket i ends where bucket i + 1 starts.
DenseRanges(n) ==
    { [i \in 1..n |->
          RpcRangeWithCount(IF i = 1 THEN jl ELSE e[i - 1],
                            IF i = n THEN ju ELSE e[i],
                            c[i])] :
        e \in AscendingBounds(n - 1), jl \in IgnoredSamples,
        ju \in IgnoredSamples, c \in [1..n -> CountSamples] }

DenseDistributionOf(ranges) ==
    IF Len(ranges) = 0
    THEN RpcDistribution(0, 0, 0, 0, 0, 0, ranges)
    ELSE RpcDistribution(-3, 8, 2, 1, 2 * SumCounts(ranges), SumCounts(ranges), ranges)

DenseDistributions ==
    { DenseDistributionOf(r) : r \in UNION { DenseRanges(n) : n \in 0..MaxBuckets } }

DenseValues ==
    { RpcValue("bool", b, 0, 0, 0, <<>>, ZeroDuration, None) : b \in BOOLEAN }
    \cup { RpcValue("int", FALSE, i, 0, 0, <<>>, ZeroDuration, None) : i \in {-1, 0} }
    \cup { RpcValue("uint", FALSE, 0, u, 0, <<>>, ZeroDuration, None) : u \in {0, 1} }
    \cup { RpcValue("float", FALSE, 0, 0, f, <<>>, ZeroDuration, None) : f \in {0, 35} }
    \cup { RpcValue("string", FALSE, 0, 0, 0, str, ZeroDuration, None) :
             str \in {<<>>, <<"x">>} }
    \cup { RpcValue("duration", FALSE, 0, 0, 0, <<>>, NewDuration(d), None) : d \in Spans }
    \cup { RpcValue("time", FALSE, 0, 0, 0, <<>>, SinceEpoch(t), None) : t \in Times }
    \cup { RpcValue("dist", FALSE, 0, 0, 0, <<>>, ZeroDuration, Some(d)) :
             d \in DenseDistributions }

DenseMetrics ==
    { RpcMetric("/proc/metric", desc, "None", Some(v)) :
        desc \in {"", "a metric"}, v \in DenseValues }

\* Bucket lists as a JSON client may send them: any bound present or absent.
WireRanges(n) ==
    { [i \in 1..n |->
          RangeWithCount(IF lp[i] THEN Some(IF i = 1 THEN -9 ELSE e[i - 1]) ELSE None,
                         IF up[i] THEN Some(IF i = n THEN 9 ELSE e[i]) ELSE None,
                         1)] :
        e \in AscendingBounds(n - 1), lp \in [1..n -> BOOLEAN],
        up \in [1..n -> BOOLEAN] }

WireDistributions ==
    { Distribution(-3, 8, 2, 1, 2 * Len(r), Len(r), r) :
        r \in UNION { WireRanges(n) : n \in 1..MaxBuckets } }

WireValues ==
    { Value(k, None, None, None, None, None, None) : k \in Kinds }
    \cup { Value("int", None, Some(0), None, None, None, None),
           Value("bool", Some(FALSE), None, None, None, None, None),
           Value("duration", None, None, None, None, Some(<<"x">>), None),
           Value("duration", None, None, None, None,
                 Some(<<"-", "0", ".", "5", "0", "0", "0", "0", "0", "0", "0", "0">>),
                 None) }
    \cup { Value("dist", None, None, None, None, None, Some(d)) :
             d \in WireDistributions }

WireMetrics == { Metric("/proc/metric", "", "None", Some(v)) : v \in WireValues }

\* ---------------------------------------------------- Metric: operations

InitMetric ==
    /\ mode = "metric"
    /\ \/ (rpc \in { Some(m) : m \in DenseMetrics } /\ json = None)
       \/ (rpc = None /\ json \in { Some(m) : m \in WireMetrics })
    /\ back = None
    /\ input = SpanInput(0)
    /\ duration = None /\ goDuration = None /\ goTime = None /\ text = None
    /\ list = <<>> /\ response = None

\* Dense -> sparse conversion of the metric at hand.
ToWireForm ==
    /\ mode = "metric" /\ rpc # None /\ json = None
    /\ json' = Some(metricToWireForm(Deref(rpc)))
    /\ UNCHANGED <<mode, input, duration, goDuration, goTime, text, rpc, back, list, response>>

\* Sparse -> dense conversion of the metric at hand.
FromWireForm ==
    /\ mode = "metric" /\ json # None /\ back = None
    /\ back' = Some(metricFromWireForm(Deref(json)))
    /\ UNCHANGED <<mode, input, duration, goDuration, goTime, text, rpc, json, list, response>>

\* ------------------------------------------------------ lookup by path

\* A nil error.
NoError == ""

\* ErrMetricNotFound left nil.
ErrMetricNotFoundNil == NoError

ErrMetricNotFound == "messages: No metric found."

Paths == {"/a", "/b", "/c"}

Transports == {"rpc", "rest"}

SnapshotMetric(path) ==
    RpcMetric(path, "", "None",
              Some(RpcValue("int", FALSE, 0, 0, 0, <<>>, ZeroDuration, None)))

\* The snapshots: up to MaxList metrics, each path at most once.
Snapshots ==
    { [i \in 1..Len(ps) |-> SnapshotMetric(ps[i])] :
        ps \in { q \in UNION { [1..k -> Paths] : k \in 0..MaxList } :
                   \A i, j \in DOMAIN q : i # j => q[i] # q[j] } }

HasPath(l, path) == \E i \in 1..Len(l) : l[i].Path = path

\* The metric of the given path, or ErrMetricNotFound.
getMetric(l, path) ==
    IF HasPath(l, path)
    THEN Ok(l[CHOOSE i \in 1..Len(l) : l[i].Path = path])
    ELSE Fail(ErrMetricNotFound)

\* What a transport answers: the rpc one dense, the REST one sparse.
encodeFor(transport, m) == IF transport = "rest" THEN metricToWireForm(m) ELSE m

InitLookup ==
    /\ mode = "lookup"
    /\ list \in Snapshots
    /\ response = None
    /\ input = SpanInput(0)
    /\ duration = None /\ goDuration = None /\ goTime = None /\ text = None
    /\ rpc = None /\ json = None /\ back = None

GetMetric(path, transport) ==
    /\ mode = "lookup"
    /\ LET r == getMetric(list, path)
       IN  response' =
               Some([op |-> "get", path |-> path, transport |-> transport,
                     err |-> r.err,
                     metrics |-> IF r.err # "" THEN <<>>
                                 ELSE <<encodeFor(transport, Deref(r.val))>>])
    /\ UNCHANGED <<mode, input, duration, goDuration, goTime, text, rpc, json, back, list>>

ListMetrics(transport) ==
    /\ mode = "lookup"
    /\ response' =
           Some([op |-> "list", path |-> "/", transport |-> transport,
                 err |-> NoError,
                 metrics |-> [i \in 1..Len(list) |-> encodeFor(transport, list[i])]])
    /\ UNCHANGED <<mode, input, duration, goDuration, goTime, text, rpc, json, back, list>>

\* ------------------------------------------------------- specification

Init == InitDuration \/ InitMetric \/ InitLookup

Next ==
    \/ CallNewDuration
    \/ CallSinceEpoch
    \/ CallAsGoDuration
    \/ CallAsGoTime
    \/ CallString
    \/ ToWireForm
    \/ FromWireForm
    \/ \E p \in Paths, t \in Transports : GetMetric(p, t)
    \/ \E t \in Transports : ListMetrics(t)

Spec == Init /\ [][Next]_vars

\* ------------------------------------------------------ claims: Duration

\* C2: every Duration built by NewDuration or SinceEpoch, also for a timestamp
\* before the epoch with a sub-second part, has Seconds and Nanoseconds that
\* are never of strictly opposite sign.
C2_SignsAgree ==
    duration # None =>
        /\ ~(Deref(duration).Seconds > 0 /\ Deref(duration).Nanoseconds < 0)
        /\ ~(Deref(duration).Seconds < 0 /\ Deref(duration).Nanoseconds > 0)

C2_Witness ==
    /\ duration # None /\ input.kind = "time"
    /\ input.time.sec < 0 /\ input.time.nsec > 0
    /\ Deref(duration).Seconds < 0 /\ Deref(duration).Nanoseconds < 0

\* C3: AsGoTime is the inverse of SinceEpoch: the time AsGoTime gives for
\* SinceEpoch(t) is the instant t, before or after the epoch.
C3_AsGoTimeInverse ==
    (goTime # None /\ input.kind = "time") => Deref(goTime) = input.time

C3_Witness ==
    /\ goTime # None /\ input.kind = "time"
    /\ input.time.sec < 0 /\ input.time.nsec = 1
    /\ Deref(goTime) = input.time

\* C4: AsGoDuration is the inverse of NewDuration: for a span s, positive,
\* zero or negative, NewDuration(s).AsGoDuration() is s.
C4_AsGoDurationInverse ==
    (goDuration # None /\ input.kind = "span") => Deref(goDuration) = input.span

C4_Witness ==
    /\ goDuration # None /\ input.kind = "span"
    /\ input.span = -1500000000
    /\ Deref(goDuration) = -1500000000

\* C5: NewDuration(d) has Seconds = d / 1e9 truncated toward zero and
\* Nanoseconds = d - Seconds * 1e9, so |Nanoseconds| < 1e9; -1,500,000,000 ns
\* gives Seconds = -1 and Nanoseconds = -500,000,000.
C5_TruncatesTowardZero ==
    (duration # None /\ input.kind = "span") =>
        LET d == input.span
            r == Deref(duration)
        IN  /\ (r.Seconds * NanosPerSecond) + r.Nanoseconds = d
            /\ Abs(r.Nanoseconds) < NanosPerSecond
            /\ Abs(r.Seconds) * NanosPerSecond <= Abs(d)
            /\ (d >= 0 => r.Seconds >= 0)
            /\ (d <= 0 => r.Seconds <= 0)
            /\ (d = -1500000000 => r = Duration(-1, -500000000))

C5_Witness ==
    /\ duration # None /\ input.kind = "span"
    /\ input.span = -1500000000
    /\ Deref(duration) = Duration(-1, -500000000)

\* C6: String renders whole seconds, a dot, nanoseconds zero-padded to nine
\* digits and a final s, with one leading minus sign exactly when the duration
\* is strictly negative: none for zero, one for -0.5s and no sign inside the
\* fraction, and -1.500000000s for Seconds = -1, Nanoseconds = -500000000.
C6_StringFormat ==
    (text # None /\ duration # None) =>
        LET s == Deref(text)
            d == Deref(duration)
            neg == d.Seconds < 0 \/ d.Nanoseconds < 0
            core == SubSeq(s, 1, Len(s) - 1)
        IN  /\ Len(s) >= 12
            /\ s[Len(s)] = "s"
            /\ (s[1] = "-") <=> neg
            /\ Cardinality({ i \in 1..Len(s) : s[i] = "-" }) = (IF neg THEN 1 ELSE 0)
            /\ IsDecimalSeconds(core)
            /\ ParseNat(WholePart(core)) = Abs(d.Seconds)
            /\ ParseNat(FracPart(core)) = Abs(d.Nanoseconds)
            /\ (Len(WholePart(core)) > 1 => WholePart(core)[1] # "0")
            /\ (d = Duration(0, 0) =>
                    s = <<"0", ".", "0", "0", "0", "0", "0", "0", "0", "0", "0", "s">>)
            /\ (d = Duration(-1, -500000000) =>
                    s = <<"-", "1", ".", "5", "0", "0", "0", "0", "0", "0", "0", "0", "s">>)

C6_Witness ==
    /\ text # None /\ duration = Some(Duration(0, -500000000))
    /\ Deref(text) = <<"-", "0", ".", "5", "0", "0", "0", "0", "0", "0", "0", "0", "s">>

\* -------------------------------------------------------- claims: Metric

\* The payload of a dense value that its Kind selects.
SelectedPayload(v) ==
    CASE v.Kind = "bool" -> <<v.BoolValue>>
      [] v.Kind = "int" -> <<v.IntValue>>
      [] v.Kind = "uint" -> <<v.UintValue>>
      [] v.Kind = "float" -> <<v.FloatValue>>
      [] v.Kind = "string" -> <<v.StringValue>>
      [] v.Kind \in {"time", "duration"} -> <<v.DurationValue>>
      [] v.Kind = "dist" -> v.DistributionValue

\* Two dense distributions that differ at most in the two ignored bounds.
SameButIgnoredBounds(a, b) ==
    /\ a.Min = b.Min /\ a.Max = b.Max /\ a.Average = b.Average
    /\ a.Median = b.Median /\ a.Sum = b.Sum /\ a.Count = b.Count
    /\ Len(a.Ranges) = Len(b.Ranges)
    /\ \A i \in 1..Len(a.Ranges) :
          /\ a.Ranges[i].Count = b.Ranges[i].Count
          /\ (i > 1 => a.Ranges[i].Lower = b.Ranges[i].Lower)
          /\ (i < Len(a.Ranges) => a.Ranges[i].Upper = b.Ranges[i].Upper)

\* C1 as stated: converting a dense metric to the sparse form and back gives
\* a metric equal to it in Path, Description, Unit, Kind and the whole payload
\* its Kind selects.
C1_RoundTripExact ==
    (rpc # None /\ back # None) =>
        /\ Deref(back).err = ""
        /\ LET m == Deref(rpc)
               r == Deref(Deref(back).val)
           IN  /\ r.Path = m.Path /\ r.Description = m.Description
               /\ r.Unit = m.Unit
               /\ Deref(r.Value).Kind = Deref(m.Value).Kind
               /\ SelectedPayload(Deref(r.Value)) = SelectedPayload(Deref(m.Value))

\* C1 amended: the round trip gives a metric equal to the dense one in Path,
\* Description, Unit, Kind and the payload its Kind selects, where for a
\* distribution the Lower of the first bucket and the Upper of the last, which
\* the sparse form does not carry, are left out of the comparison.
C1_RoundTrip ==
    (rpc # None /\ back # None) =>
        /\ Deref(back).err = ""
        /\ LET m == Deref(rpc)
               r == Deref(Deref(back).val)
               mv == Deref(m.Value)
               rv == Deref(r.Value)
           IN  /\ r.Path = m.Path /\ r.Description = m.Description
               /\ r.Unit = m.Unit
               /\ rv.Kind = mv.Kind
               /\ IF mv.Kind = "dist"
                  THEN /\ rv.DistributionValue # None
                       /\ SameButIgnoredBounds(Deref(rv.DistributionValue),
                                               Deref(mv.DistributionValue))
                  ELSE SelectedPayload(rv) = SelectedPayload(mv)

C1_Witness ==
    /\ rpc # None /\ back # None /\ Deref(back).err = ""
    /\ Deref(Deref(rpc).Value).Kind = "dist"
    /\ LET a == Deref(Deref(Deref(rpc).Value).DistributionValue).Ranges
           b == Deref(Deref(Deref(Deref(back).val).Value).DistributionValue).Ranges
       IN  /\ Len(a) = 3 /\ Len(b) = 3
           /\ a[1].Lower = 9 /\ b[1].Lower = 0
           /\ a[2].Lower = 0 /\ b[2].Lower = 0

\* C7: in the sparse distribution made from a dense one of n >= 1 buckets,
\* bucket 0 has no Lower, bucket n-1 has no Upper, a single bucket has
\* neither, and every other bound is present and equal to the dense bound at
\* the same position, also when that bound is 0.
C7_BoundaryOmission ==
    (rpc # None /\ json # None /\ Deref(Deref(rpc).Value).Kind = "dist") =>
        LET dr == Deref(Deref(Deref(rpc).Value).DistributionValue).Ranges
            jv == Deref(Deref(json).Value)
        IN  /\ jv.DistributionValue # None
            /\ LET sr == Deref(jv.DistributionValue).Ranges
               IN  /\ Len(sr) = Len(dr)
                   /\ \A i \in 1..Len(dr) :
                         /\ sr[i].Lower = (IF i = 1 THEN None ELSE Some(dr[i].Lower))
                         /\ sr[i].Upper =
                                (IF i = Len(dr) THEN None ELSE Some(dr[i].Upper))

C7_Witness ==
    /\ rpc # None /\ json # None /\ Deref(Deref(rpc).Value).Kind = "dist"
    /\ LET dr == Deref(Deref(Deref(rpc).Value).DistributionValue).Ranges
           sr == Deref(Deref(Deref(json).Value).DistributionValue).Ranges
       IN  /\ Len(dr) = 3 /\ dr[1].Lower = 9 /\ dr[3].Upper = 9
           /\ sr[1].Lower = None /\ sr[3].Upper = None
           /\ sr[1].Upper = Some(0) /\ sr[2].Lower = Some(0)

PayloadFields ==
    {"BoolValue", "IntValue", "UintValue", "FloatValue", "StringValue",
     "DistributionValue"}

\* The sparse field a Kind selects.
SelectedField(kind) ==
    CASE kind = "bool" -> "BoolValue"
      [] kind = "int" -> "IntValue"
      [] kind = "uint" -> "UintValue"
      [] kind = "float" -> "FloatValue"
      [] kind \in {"string", "time", "duration"} -> "StringValue"
      [] kind = "dist" -> "DistributionValue"

\* C8: the sparse Value made from a dense value has exactly one payload field
\* present, the one its Kind selects, also when that payload is a zero value;
\* for the time and duration kinds it is StringValue with the decimal-seconds
\* text.
C8_OnePayloadPresent ==
    (rpc # None /\ json # None) =>
        LET dv == Deref(Deref(rpc).Value)
            jv == Deref(Deref(json).Value)
        IN  /\ jv.Kind = dv.Kind
            /\ { f \in PayloadFields : jv[f] # None } = {SelectedField(dv.Kind)}
            /\ (dv.Kind = "bool" => jv.BoolValue = Some(dv.BoolValue))
            /\ (dv.Kind = "int" => jv.IntValue = Some(dv.IntValue))
            /\ (dv.Kind = "uint" => jv.UintValue = Some(dv.UintValue))
            /\ (dv.Kind = "float" => jv.FloatValue = Some(dv.FloatValue))
            /\ (dv.Kind = "string" => jv.StringValue = Some(dv.StringValue))
            /\ (dv.Kind \in {"time", "duration"} =>
                   /\ IsDecimalSeconds(Deref(jv.StringValue))
                   /\ (Deref(jv.StringValue)[1] = "-") <=>
                          (dv.DurationValue.Seconds < 0 \/ dv.DurationValue.Nanoseconds < 0)
                   /\ ParseNat(WholePart(Deref(jv.StringValue))) =
                          Abs(dv.DurationValue.Seconds)
                   /\ ParseNat(FracPart(Deref(jv.StringValue))) =
                          Abs(dv.DurationValue.Nanoseconds))

C8_Witness ==
    /\ rpc # None /\ json # None
    /\ Deref(Deref(rpc).Value).Kind = "uint"
    /\ Deref(Deref(rpc).Value).UintValue = 0
    /\ Deref(Deref(json).Value).UintValue = Some(0)
    /\ Deref(Deref(json).Value).IntValue = None

\* C10: the sparse -> dense conversion of a distribution takes a missing Lower
\* only on the first bucket and a missing Upper only on the last; a missing
\* bound anywhere else gives the malformed-distribution failure and no metric,
\* never a default bound.
C10_InteriorBoundRequired ==
    (json # None /\ back # None /\ Deref(Deref(json).Value).Kind = "dist"
        /\ Deref(Deref(json).Value).DistributionValue # None) =>
        LET sr == Deref(Deref(Deref(json).Value).DistributionValue).Ranges
            n == Len(sr)
            missing == \E i \in 1..n :
                          \/ (sr[i].Lower = None /\ i # 1)
                          \/ (sr[i].Upper = None /\ i # n)
            out == Deref(back)
        IN  /\ missing => (out.err = "malformed-distribution" /\ out.val = None)
            /\ ~missing =>
                  /\ out.err = ""
                  /\ LET dr == Deref(Deref(Deref(out.val).Value).DistributionValue).Ranges
                     IN  /\ Len(dr) = n
                         /\ \A i \in 1..n :
                               /\ (sr[i].Lower # None => dr[i].Lower = Deref(sr[i].Lower))
                               /\ (sr[i].Upper # None => dr[i].Upper = Deref(sr[i].Upper))

C10_Witness ==
    /\ rpc = None /\ json # None /\ back # None
    /\ Deref(Deref(json).Value).Kind = "dist"
    /\ Deref(Deref(json).Value).DistributionValue # None
    /\ LET sr == Deref(Deref(Deref(json).Value).DistributionValue).Ranges
       IN  /\ Len(sr) = 3
           /\ sr[1].Lower = None /\ sr[1].Upper # None
           /\ sr[2].Lower = None /\ sr[2].Upper # None
           /\ sr[3].Lower # None /\ sr[3].Upper = None
    /\ Deref(back).err = "malformed-distribution"
    /\ Deref(back).val = None

\* -------------------------------------------------------- claims: lookup

\* C9: looking up a path no metric of the list has gives ErrMetricNotFound, an
\* error and no metric, the same for both transports and unlike the
\* successful answer that carries an empty list; looking up a path that is
\* present never gives ErrMetricNotFound.
C9_NotFound ==
    response # None =>
        LET r == Deref(response)
            present == \E i \in 1..Len(list) : list[i].Path = r.path
        IN  /\ (r.op = "get" /\ ~present) =>
                  /\ r.err = "messages: No metric found."
                  /\ r.err = ErrMetricNotFound
                  /\ r.err # NoError
                  /\ r.metrics = <<>>
            /\ (r.op = "get" /\ present) =>
                  /\ r.err = NoError /\ r.err # ErrMetricNotFound
                  /\ Len(r.metrics) = 1 /\ r.metrics[1].Path = r.path
            /\ (r.op = "list") =>
                  /\ r.err = NoError /\ r.err # ErrMetricNotFound
                  /\ Len(r.metrics) = Len(list)

C9_Witness ==
    /\ response # None /\ Len(list) > 0
    /\ Deref(response).op = "get" /\ Deref(response).transport = "rest"
    /\ ~HasPath(list, Deref(response).path)
    /\ Deref(response).err = "messages: No metric found."
    /\ Deref(response).metrics = <<>>

====
